---- MODULE Spec2Model ----
(***************************************************************************)
(* A model of housekeeping.js: the artifact deletion executor              *)
(* (deleteProjectArtifacts), its fleet-wide driver                         *)
(* (deleteAllExpiredArtifacts), the statistics reconciler (main), alone    *)
(* and in two overlapping processes, and the command-line dispatch.        *)
(*                                                                         *)
(* Time is counted in whole days.  A JavaScript value that is null,        *)
(* undefined or a missing property is modelled by Absent (timestamps) or   *)
(* Undefined / Null (object fields).                                       *)
(***************************************************************************)
EXTENDS Integers, Sequences, FiniteSets

\* ------------------------------------------------------------------ bounds
MaxTime == 17
TimeStep == 4
MaxJobs == 2
PageSize == 1
MaxProjects == 2
MaxRuns == 2

\* ------------------------------------------------------- program constants
\* sevenDaysAgo.setDate(getDate() - 7) and expireAtDate.setDate(getDate() + 7)
SEVEN_DAYS == 7

\* a job field that is null / undefined: `if (job.artifacts_expire_at)` is false
Absent == -1

\* an object property that is undefined or missing (JSON.stringify drops it,
\* JSON.parse gives it back as undefined)
Undefined == Absent

\* (1024 * 1024) of line 262
BYTES_PER_MB == 1048576

Times == 0 .. MaxTime
CoarseTimes == {t \in Times : t % TimeStep = 0}
NowChoices == {MaxTime - 2, MaxTime - 1}

Job(i, e, c) == [id |-> i, artifacts_expire_at |-> e, created_at |-> c]

\* job lists the listing endpoint can hold: ids are unique within a project
JobLists(T) ==
    UNION {{[i \in 1 .. n |-> Job(i, ec[i][1], ec[i][2])] :
                ec \in [1 .. n -> (T \cup {Absent}) \X (T \cup {Absent})]} :
           n \in 0 .. MaxJobs}

VARIABLES
    dpc,          \* position in deleteProjectArtifacts
    dryRun,       \* the dryRun argument
    remoteJobs,   \* the jobs of the project on the platform
    page,         \* next page number to request
    allJobs,      \* the accumulated job list
    now,          \* the clock read at `new Date()` (Absent before)
    sevenDaysAgo, \* the threshold (Absent before it is computed)
    jobIdx,       \* position of the for-of loop in allJobs
    deleteCalls,  \* DELETE requests issued, in order: [job, ok]
    wouldDelete,  \* "DRY RUN: Would delete" reports, in order
    jobsFetch,    \* outcome of the job listing: "pending", "ok" or "failed"
    result,       \* return value: "none" until the call returns
    jobRequests   \* GET .../jobs requests issued by this call, in order: [page, ok]

dvars == <<dpc, dryRun, remoteJobs, page, allJobs, now, sevenDaysAgo, jobIdx,
           deleteCalls, wouldDelete, jobsFetch, result, jobRequests>>

VARIABLES
    mpc,            \* position in main: "idle", "single", "list", "fetch", "raw",
                    \* "summarise", "done", "exited", "killed"
    targetProjectId, \* --project-id, Undefined when not given
    forceUpdate,    \* --force-update
    summaryFile,    \* gitlab_artifact_summary.json (<<>> when missing)
    rawFile,        \* gitlab_raw_project_statistics.json
    remoteProjects, \* the platform's project list (ids, in listing order)
    ppage,          \* fetchAllProjects: next page number
    projectsFetch,  \* outcome of fetchAllProjects: "pending", "ok" or "failed"
    basicProjects,  \* the fetched project list
    projIdx,        \* position of the loop of line 205
    projectArtifactSummaries, \* the in-memory summary collection
    projectsWithStatistics,   \* records collected for the summary step
    sumIdx,         \* position of the loop of line 246
    statFetches,    \* GET /projects/:id?statistics=true issued in this run: [id, ok, size]
    loadedSummary,  \* the summary as loaded at line 171 of this run
    clock,          \* the wall clock, read by new Date() at line 265
    runNo,          \* number of runs started
    prevRun,        \* how the preceding run ended: "none", "fleet" (completed
                    \* fleet-wide pass), "other"
    exitCode,       \* process exit code, Undefined while running
    projectRequests, \* GET /projects requests issued by this run, in order: [page, ok]
    rawWrites       \* writes of the raw statistics file by this run, in order:
                    \* the number of summary-file writes that preceded each

mvars == <<mpc, targetProjectId, forceUpdate, summaryFile, rawFile, remoteProjects,
           ppage, projectsFetch, basicProjects, projIdx, projectArtifactSummaries,
           projectsWithStatistics, sumIdx, statFetches, loadedSummary, clock,
           runNo, prevRun, exitCode, projectRequests, rawWrites>>

VARIABLES
    apc,            \* position in deleteAllExpiredArtifacts: "off" (not called),
                    \* "list", "loop", "call", "done"
    invoked,        \* deleteProjectArtifacts calls that returned, in order:
                    \* [project, result]
    aResult         \* return value of deleteAllExpiredArtifacts, "none" before

avars == <<apc, invoked, aResult>>

VARIABLES
    otherRun        \* a second process running main at the same time:
                    \* [pc, loaded, summaries, records, idx], pc = "off" when
                    \* there is none

ovars == <<otherRun>>

vars == <<dvars, mvars, avars, ovars>>

\* ------------------------------------------------------------ pure helpers
Min(a, b) == IF a < b THEN a ELSE b

\* the body of page p of list s, as the platform serves it
PageBody(s, p) ==
    SubSeq(s, (p - 1) * PageSize + 1, Min(p * PageSize, Len(s)))

\* the response carries an x-next-page header
HasNextPage(s, p) == p * PageSize < Len(s)

\* the fallback without the assumed 7-day lifetime
ExpireAtDateNoGrace(job) ==
    IF job.artifacts_expire_at # Absent THEN job.artifacts_expire_at
    ELSE IF job.created_at # Absent THEN job.created_at
    ELSE Absent

\* lines 86-97: the date the comparison uses; Absent when the job is skipped
ExpireAtDate(job) ==
    IF job.artifacts_expire_at # Absent THEN job.artifacts_expire_at
    ELSE IF job.created_at # Absent THEN job.created_at + SEVEN_DAYS
    ELSE Absent

\* the comparison of line 99 taken as <=
IsExpiredInclusive(job, threshold) ==
    /\ ExpireAtDate(job) # Absent
    /\ ExpireAtDate(job) <= threshold

\* line 99, after the `continue` of line 96
IsExpired(job, threshold) ==
    /\ ExpireAtDate(job) # Absent
    /\ ExpireAtDate(job) < threshold

\* lines 82-83
SevenDaysAgo(t) == t - SEVEN_DAYS

\* ------------------------------------------------------------------- Init
DeleteInit(lists) ==
    /\ dpc = "listing"
    /\ dryRun \in BOOLEAN
    /\ remoteJobs \in lists
    /\ page = 1
    /\ allJobs = <<>>
    /\ now = Absent
    /\ sevenDaysAgo = Absent
    /\ jobIdx = 1
    /\ deleteCalls = <<>>
    /\ wouldDelete = <<>>
    /\ jobsFetch = "pending"
    /\ result = "none"
    /\ jobRequests = <<>>

\* ---------------------------------------------------------------- actions
\* the listing loop with `while (page <= 1)`: a single page is requested
FetchJobsPageCapped ==
    /\ dpc = "listing"
    /\ allJobs' = allJobs \o PageBody(remoteJobs, page)
    /\ page' = page + 1
    /\ jobRequests' = Append(jobRequests, [page |-> page, ok |-> TRUE])
    /\ dpc' = "loop"
    /\ jobsFetch' = "ok"
    /\ \E t \in NowChoices :
         /\ now' = t
         /\ sevenDaysAgo' = SevenDaysAgo(t)
    /\ UNCHANGED <<dryRun, remoteJobs, jobIdx, deleteCalls, wouldDelete, result>>
    /\ UNCHANGED mvars
    /\ UNCHANGED avars
    /\ UNCHANGED ovars

\* lines 69-78, one successful page request; after the last page lines 82-83
FetchJobsPage ==
    /\ dpc = "listing"
    /\ allJobs' = allJobs \o PageBody(remoteJobs, page)
    /\ page' = page + 1
    /\ jobRequests' = Append(jobRequests, [page |-> page, ok |-> TRUE])
    /\ IF HasNextPage(remoteJobs, page)
       THEN /\ dpc' = "listing"
            /\ UNCHANGED <<now, sevenDaysAgo, jobsFetch>>
       ELSE /\ dpc' = "loop"
            /\ jobsFetch' = "ok"
            /\ \E t \in NowChoices :
                 /\ now' = t
                 /\ sevenDaysAgo' = SevenDaysAgo(t)
    /\ UNCHANGED <<dryRun, remoteJobs, jobIdx, deleteCalls, wouldDelete, result>>
    /\ UNCHANGED mvars
    /\ UNCHANGED avars
    /\ UNCHANGED ovars

\* a failed page request that ends the listing loop only: the jobs of the
\* pages already received are processed
FetchJobsFailUsesPartial ==
    /\ dpc = "listing"
    /\ dpc' = "loop"
    /\ jobsFetch' = "failed"
    /\ jobRequests' = Append(jobRequests, [page |-> page, ok |-> FALSE])
    /\ \E t \in NowChoices :
         /\ now' = t
         /\ sevenDaysAgo' = SevenDaysAgo(t)
    /\ UNCHANGED <<dryRun, remoteJobs, page, allJobs, jobIdx, deleteCalls,
                   wouldDelete, result>>
    /\ UNCHANGED mvars
    /\ UNCHANGED avars
    /\ UNCHANGED ovars

\* lines 70, 122-128: a page request throws, the outer catch returns false
FetchJobsFail ==
    /\ dpc = "listing"
    /\ dpc' = "done"
    /\ jobsFetch' = "failed"
    /\ result' = "false"
    /\ jobRequests' = Append(jobRequests, [page |-> page, ok |-> FALSE])
    /\ UNCHANGED <<dryRun, remoteJobs, page, allJobs, now, sevenDaysAgo, jobIdx,
                   deleteCalls, wouldDelete>>
    /\ UNCHANGED mvars
    /\ UNCHANGED avars
    /\ UNCHANGED ovars

InLoop == dpc = "loop" /\ jobIdx <= Len(allJobs)

\* the skip of line 96 written as `break`
SkipJobBreaks ==
    /\ InLoop
    /\ ExpireAtDate(allJobs[jobIdx]) = Absent
    /\ jobIdx' = Len(allJobs) + 1
    /\ UNCHANGED <<dpc, dryRun, remoteJobs, page, allJobs, now, sevenDaysAgo,
                   deleteCalls, wouldDelete, jobsFetch, result>>
    /\ UNCHANGED jobRequests
    /\ UNCHANGED mvars
    /\ UNCHANGED avars
    /\ UNCHANGED ovars

\* lines 94-96: neither timestamp, continue
SkipJob ==
    /\ InLoop
    /\ ExpireAtDate(allJobs[jobIdx]) = Absent
    /\ jobIdx' = jobIdx + 1
    /\ UNCHANGED <<dpc, dryRun, remoteJobs, page, allJobs, now, sevenDaysAgo,
                   deleteCalls, wouldDelete, jobsFetch, result>>
    /\ UNCHANGED jobRequests
    /\ UNCHANGED mvars
    /\ UNCHANGED avars
    /\ UNCHANGED ovars

\* lines 99, 116-118: not older than the threshold
KeepJob ==
    /\ InLoop
    /\ ExpireAtDate(allJobs[jobIdx]) # Absent
    /\ ~IsExpired(allJobs[jobIdx], sevenDaysAgo)
    /\ jobIdx' = jobIdx + 1
    /\ UNCHANGED <<dpc, dryRun, remoteJobs, page, allJobs, now, sevenDaysAgo,
                   deleteCalls, wouldDelete, jobsFetch, result>>
    /\ UNCHANGED jobRequests
    /\ UNCHANGED mvars
    /\ UNCHANGED avars
    /\ UNCHANGED ovars

\* the DELETE request without the inner try/catch: a failure reaches line 122
DeleteJobAborts ==
    /\ InLoop
    /\ IsExpired(allJobs[jobIdx], sevenDaysAgo)
    /\ ~dryRun
    /\ \E ok \in BOOLEAN :
         /\ deleteCalls' = Append(deleteCalls, [job |-> allJobs[jobIdx].id, ok |-> ok])
         /\ IF ok
            THEN jobIdx' = jobIdx + 1 /\ UNCHANGED <<dpc, result>>
            ELSE dpc' = "done" /\ result' = "false" /\ UNCHANGED jobIdx
    /\ UNCHANGED <<dryRun, remoteJobs, page, allJobs, now, sevenDaysAgo,
                   wouldDelete, jobsFetch>>
    /\ UNCHANGED jobRequests
    /\ UNCHANGED mvars
    /\ UNCHANGED avars
    /\ UNCHANGED ovars

\* lines 101-112: live mode, the DELETE request; its failure is caught at 106
DeleteJob ==
    /\ InLoop
    /\ IsExpired(allJobs[jobIdx], sevenDaysAgo)
    /\ ~dryRun
    /\ \E ok \in BOOLEAN :
         deleteCalls' = Append(deleteCalls, [job |-> allJobs[jobIdx].id, ok |-> ok])
    /\ jobIdx' = jobIdx + 1
    /\ UNCHANGED <<dpc, dryRun, remoteJobs, page, allJobs, now, sevenDaysAgo,
                   wouldDelete, jobsFetch, result>>
    /\ UNCHANGED jobRequests
    /\ UNCHANGED mvars
    /\ UNCHANGED avars
    /\ UNCHANGED ovars

\* the dry-run branch issuing the request all the same
ReportJobDeletes ==
    /\ InLoop
    /\ IsExpired(allJobs[jobIdx], sevenDaysAgo)
    /\ dryRun
    /\ deleteCalls' = Append(deleteCalls, [job |-> allJobs[jobIdx].id, ok |-> TRUE])
    /\ wouldDelete' = Append(wouldDelete, allJobs[jobIdx].id)
    /\ jobIdx' = jobIdx + 1
    /\ UNCHANGED <<dpc, dryRun, remoteJobs, page, allJobs, now, sevenDaysAgo,
                   jobsFetch, result>>
    /\ UNCHANGED jobRequests
    /\ UNCHANGED mvars
    /\ UNCHANGED avars
    /\ UNCHANGED ovars

\* lines 113-115: dry run, report only
ReportJob ==
    /\ InLoop
    /\ IsExpired(allJobs[jobIdx], sevenDaysAgo)
    /\ dryRun
    /\ wouldDelete' = Append(wouldDelete, allJobs[jobIdx].id)
    /\ jobIdx' = jobIdx + 1
    /\ UNCHANGED <<dpc, dryRun, remoteJobs, page, allJobs, now, sevenDaysAgo,
                   deleteCalls, jobsFetch, result>>
    /\ UNCHANGED jobRequests
    /\ UNCHANGED mvars
    /\ UNCHANGED avars
    /\ UNCHANGED ovars

\* a return value that reflects the outcomes of the DELETE requests
DeleteReturnReflectsDeletes ==
    /\ dpc = "loop"
    /\ jobIdx > Len(allJobs)
    /\ dpc' = "done"
    /\ result' = IF \E i \in 1 .. Len(deleteCalls) : ~deleteCalls[i].ok
                 THEN "false" ELSE "true"
    /\ UNCHANGED <<dryRun, remoteJobs, page, allJobs, now, sevenDaysAgo, jobIdx,
                   deleteCalls, wouldDelete, jobsFetch>>
    /\ UNCHANGED jobRequests
    /\ UNCHANGED mvars
    /\ UNCHANGED avars
    /\ UNCHANGED ovars

\* lines 120-121
DeleteReturn ==
    /\ dpc = "loop"
    /\ jobIdx > Len(allJobs)
    /\ dpc' = "done"
    /\ result' = "true"
    /\ UNCHANGED <<dryRun, remoteJobs, page, allJobs, now, sevenDaysAgo, jobIdx,
                   deleteCalls, wouldDelete, jobsFetch>>
    /\ UNCHANGED jobRequests
    /\ UNCHANGED mvars
    /\ UNCHANGED avars
    /\ UNCHANGED ovars

\* lines 331-337: the promise of deleteProjectArtifacts resolves, process.exit(0)
DeleteExit ==
    /\ apc = "off"
    /\ dpc = "done"
    /\ exitCode = Undefined
    /\ exitCode' = 0
    /\ UNCHANGED <<mpc, targetProjectId, forceUpdate, summaryFile, rawFile,
                   remoteProjects, ppage, projectsFetch, basicProjects, projIdx,
                   projectArtifactSummaries, projectsWithStatistics, sumIdx,
                   statFetches, loadedSummary, clock, runNo, prevRun,
                   projectRequests, rawWrites>>
    /\ UNCHANGED dvars
    /\ UNCHANGED avars
    /\ UNCHANGED ovars

DeleteNext ==
    \/ FetchJobsPage
    \/ FetchJobsFail
    \/ SkipJob
    \/ KeepJob
    \/ DeleteJob
    \/ ReportJob
    \/ DeleteReturn
    \/ DeleteExit

\* ------------------------------------------------- main: values and helpers
ProjectIds == 1 .. MaxProjects

\* project lists the platform can serve: distinct ids.  Ids are labels, so
\* the listing order is taken as the order of the ids; the summary file gets
\* other orders through single-target runs.
ProjectLists == {[i \in 1 .. n |-> i] : n \in 0 .. MaxProjects}

\* the name the platform gives project id
ProjectName(id) == 100 + id

\* error strings; Null and NoError are falsy
Null == "null"
NoError == "undefined"
FetchError == "Error fetching statistics for project"
SizeUnavailable == "Build artifacts size not available in project statistics."
TruthyStr(e) == e # Null /\ e # NoError

\* statistics values: undefined (the property is missing), {} and
\* {job_artifacts_size: n}
UndefinedStats == [defined |-> FALSE, job_artifacts_size |-> Undefined]
EmptyStats == [defined |-> TRUE, job_artifacts_size |-> Undefined]
Stats(n) == [defined |-> TRUE, job_artifacts_size |-> n]
TruthyNum(n) == n # Undefined /\ n # 0

\* what GET /projects/:id?statistics=true can carry as statistics
RemoteStats == {Stats(0), Stats((3 * BYTES_PER_MB) \div 2)}

\* a JavaScript object with the properties the program reads or writes
Obj(id, name, st, err, pid, pname, bytes, mb, ts) ==
    [id |-> id, name |-> name, statistics |-> st, error |-> err,
     projectId |-> pid, projectName |-> pname, buildArtifactsSizeBytes |-> bytes,
     buildArtifactsSizeMB |-> mb, timestamp |-> ts]

\* a project as the platform returns it
Project(id, st) ==
    Obj(id, ProjectName(id), st, NoError, Undefined, Undefined, Undefined,
        Undefined, Undefined)

\* lines 234-235: the basic project with statistics = {} and the error
FailedProject(id) ==
    [Project(id, EmptyStats) EXCEPT !.error = FetchError]

\* (bytes / (1024 * 1024)).toFixed(2), in hundredths of a MB
ToFixed2(bytes) == (bytes * 100 + BYTES_PER_MB \div 2) \div BYTES_PER_MB

\* Array.prototype.findIndex on entry.projectId === pid; 0 when none (JS: -1)
FindIndex(s, pid) ==
    IF \E i \in 1 .. Len(s) : s[i].projectId = pid
    THEN CHOOSE i \in 1 .. Len(s) :
             /\ s[i].projectId = pid
             /\ \A j \in 1 .. i - 1 : s[j].projectId # pid
    ELSE 0

\* the skip test without the forceUpdate flag
CanSkipIgnoresForce(entries, pid, force) ==
    LET i == FindIndex(entries, pid) IN
    /\ i > 0
    /\ ~TruthyStr(entries[i].error)
    /\ entries[i].statistics.defined

\* line 209
CanSkip(entries, pid, force) ==
    LET i == FindIndex(entries, pid) IN
    /\ ~force
    /\ i > 0
    /\ ~TruthyStr(entries[i].error)
    /\ entries[i].statistics.defined

\* lines 248-266
SummaryEntry(project, ts) ==
    LET hasSize == /\ project.statistics.defined
                   /\ TruthyNum(project.statistics.job_artifacts_size)
        bytes == IF hasSize THEN project.statistics.job_artifacts_size ELSE 0
        err == IF ~hasSize THEN SizeUnavailable
               ELSE IF TruthyStr(project.error) THEN project.error ELSE Null
    IN Obj(Undefined, Undefined, project.statistics, err, project.id, project.name,
           bytes, ToFixed2(bytes), ts)

\* an upsert that always pushes
UpsertAppends(s, e) == Append(s, e)

\* lines 269-274
Upsert(s, e) ==
    LET i == FindIndex(s, e.projectId) IN
    IF i > 0 THEN [s EXCEPT ![i] = e] ELSE Append(s, e)

ProjectPage(l, p) == SubSeq(l, (p - 1) * PageSize + 1, Min(p * PageSize, Len(l)))

\* --------------------------------------------------------------- main: Init
MainMemoryReset ==
    /\ ppage = 1
    /\ projectsFetch = "pending"
    /\ basicProjects = <<>>
    /\ projIdx = 1
    /\ projectArtifactSummaries = <<>>
    /\ projectsWithStatistics = <<>>
    /\ sumIdx = 1
    /\ statFetches = <<>>
    /\ loadedSummary = <<>>
    /\ projectRequests = <<>>
    /\ rawWrites = <<>>

MainFiles(lists) ==
    /\ summaryFile = <<>>
    /\ rawFile = <<>>
    /\ remoteProjects \in lists
    /\ clock = 0
    /\ runNo = 0
    /\ prevRun = "none"

MainInit ==
    /\ mpc = "idle"
    /\ targetProjectId = Undefined
    /\ forceUpdate = FALSE
    /\ exitCode = Undefined
    /\ MainMemoryReset
    /\ MainFiles(ProjectLists)

\* the deletion modes never enter main
MainIdle ==
    /\ mpc = "off"
    /\ targetProjectId = Undefined
    /\ forceUpdate = FALSE
    /\ exitCode = Undefined
    /\ MainMemoryReset
    /\ MainFiles({<<>>})

\* the summary mode never enters deleteProjectArtifacts
DeleteIdle ==
    /\ dpc = "idle"
    /\ dryRun = FALSE
    /\ remoteJobs = <<>>
    /\ page = 1
    /\ allJobs = <<>>
    /\ now = Absent
    /\ sevenDaysAgo = Absent
    /\ jobIdx = 1
    /\ deleteCalls = <<>>
    /\ wouldDelete = <<>>
    /\ jobsFetch = "pending"
    /\ result = "none"
    /\ jobRequests = <<>>

\* neither main nor --delete-project-id=<id> enters deleteAllExpiredArtifacts
AllIdle ==
    /\ apc = "off"
    /\ invoked = <<>>
    /\ aResult = "none"

\* no second process
OtherOff ==
    [pc |-> "off", loaded |-> <<>>, summaries |-> <<>>, records |-> <<>>, idx |-> 1]

\* ------------------------------------------------------------ main: actions
Stopped == mpc \in {"idle", "done", "exited", "killed"}

\* lines 302-305, 343, 164-182: a new process; the summary file is loaded
StartRun ==
    /\ Stopped
    /\ runNo < MaxRuns
    /\ runNo' = runNo + 1
    /\ clock' = clock + 1
    /\ \E t \in ProjectIds \cup {Undefined}, f \in BOOLEAN :
         /\ targetProjectId' = t
         /\ forceUpdate' = f
         /\ mpc' = IF t # Undefined THEN "single" ELSE "list"
    /\ projectArtifactSummaries' = summaryFile
    /\ loadedSummary' = summaryFile
    /\ ppage' = 1
    /\ projectsFetch' = "pending"
    /\ basicProjects' = <<>>
    /\ projIdx' = 1
    /\ projectsWithStatistics' = <<>>
    /\ sumIdx' = 1
    /\ statFetches' = <<>>
    /\ projectRequests' = <<>>
    /\ rawWrites' = <<>>
    /\ exitCode' = Undefined
    /\ prevRun' = IF mpc = "done" /\ targetProjectId = Undefined
                     /\ projectsFetch = "ok"
                  THEN "fleet"
                  ELSE IF mpc = "idle" THEN "none" ELSE "other"
    /\ UNCHANGED <<summaryFile, rawFile, remoteProjects>>
    /\ UNCHANGED dvars
    /\ UNCHANGED avars
    /\ UNCHANGED ovars

\* lines 183-191: the targeted project is fetched
FetchTarget ==
    /\ mpc = "single"
    /\ \E st \in RemoteStats :
         /\ projectsWithStatistics' = <<Project(targetProjectId, st)>>
         /\ statFetches' = Append(statFetches,
                [id |-> targetProjectId, ok |-> TRUE, statistics |-> st])
    /\ mpc' = "raw"
    /\ UNCHANGED <<targetProjectId, forceUpdate, summaryFile, rawFile, remoteProjects,
                   ppage, projectsFetch, basicProjects, projIdx, projectArtifactSummaries, sumIdx,
                   loadedSummary, clock, runNo, prevRun, exitCode>>
    /\ UNCHANGED <<projectRequests, rawWrites>>
    /\ UNCHANGED dvars
    /\ UNCHANGED avars
    /\ UNCHANGED ovars

\* lines 192-198 handled like a failure in the fleet-wide loop: the failure is
\* recorded in the project record and the run goes on
FetchTargetFailRecorded ==
    /\ mpc = "single"
    /\ projectsWithStatistics' = <<FailedProject(targetProjectId)>>
    /\ statFetches' = Append(statFetches,
           [id |-> targetProjectId, ok |-> FALSE, statistics |-> UndefinedStats])
    /\ mpc' = "raw"
    /\ UNCHANGED <<targetProjectId, forceUpdate, summaryFile, rawFile, remoteProjects,
                   ppage, projectsFetch, basicProjects, projIdx, projectArtifactSummaries,
                   sumIdx, loadedSummary, clock, runNo, prevRun, exitCode>>
    /\ UNCHANGED <<projectRequests, rawWrites>>
    /\ UNCHANGED dvars
    /\ UNCHANGED avars
    /\ UNCHANGED ovars

\* lines 192-198: process.exit(1)
FetchTargetFail ==
    /\ mpc = "single"
    /\ statFetches' = Append(statFetches,
           [id |-> targetProjectId, ok |-> FALSE, statistics |-> UndefinedStats])
    /\ mpc' = "exited"
    /\ exitCode' = 1
    /\ UNCHANGED <<targetProjectId, forceUpdate, summaryFile, rawFile, remoteProjects,
                   ppage, projectsFetch, basicProjects, projIdx, projectArtifactSummaries,
                   projectsWithStatistics, sumIdx, loadedSummary, clock, runNo,
                   prevRun>>
    /\ UNCHANGED <<projectRequests, rawWrites>>
    /\ UNCHANGED dvars
    /\ UNCHANGED avars
    /\ UNCHANGED ovars

\* lines 202, 24-36: one successful page of fetchAllProjects
FetchProjectsPage ==
    /\ mpc = "list"
    /\ basicProjects' = basicProjects \o
           [i \in 1 .. Len(ProjectPage(remoteProjects, ppage)) |->
               Project(ProjectPage(remoteProjects, ppage)[i], UndefinedStats)]
    /\ ppage' = ppage + 1
    /\ projectRequests' = Append(projectRequests, [page |-> ppage, ok |-> TRUE])
    /\ UNCHANGED rawWrites
    /\ IF ppage * PageSize < Len(remoteProjects)
       THEN mpc' = "list" /\ UNCHANGED projectsFetch
       ELSE mpc' = "fetch" /\ projectsFetch' = "ok"
    /\ UNCHANGED <<targetProjectId, forceUpdate, summaryFile, rawFile, remoteProjects,
                   projIdx, projectArtifactSummaries, projectsWithStatistics, sumIdx,
                   statFetches, loadedSummary, clock, runNo, prevRun, exitCode>>
    /\ UNCHANGED dvars
    /\ UNCHANGED avars
    /\ UNCHANGED ovars

\* fetchAllProjects catching the failed request and returning the pages it
\* has: the run goes on with the partial list
FetchProjectsFailReturnsPartial ==
    /\ mpc = "list"
    /\ mpc' = "fetch"
    /\ projectsFetch' = "failed"
    /\ projectRequests' = Append(projectRequests, [page |-> ppage, ok |-> FALSE])
    /\ UNCHANGED rawWrites
    /\ UNCHANGED <<targetProjectId, forceUpdate, summaryFile, rawFile, remoteProjects,
                   ppage, basicProjects, projIdx, projectArtifactSummaries,
                   projectsWithStatistics, sumIdx, statFetches, loadedSummary, clock,
                   runNo, prevRun, exitCode>>
    /\ UNCHANGED dvars
    /\ UNCHANGED avars
    /\ UNCHANGED ovars

\* lines 202, 292-298: a page request throws; main's catch logs and main returns
FetchProjectsFail ==
    /\ mpc = "list"
    /\ mpc' = "done"
    /\ exitCode' = 0
    /\ projectsFetch' = "failed"
    /\ basicProjects' = <<>>
    /\ projectRequests' = Append(projectRequests, [page |-> ppage, ok |-> FALSE])
    /\ UNCHANGED rawWrites
    /\ UNCHANGED <<targetProjectId, forceUpdate, summaryFile, rawFile, remoteProjects,
                   ppage, projIdx, projectArtifactSummaries, projectsWithStatistics,
                   sumIdx, statFetches, loadedSummary, clock, runNo, prevRun>>
    /\ UNCHANGED dvars
    /\ UNCHANGED avars
    /\ UNCHANGED ovars

InFetchLoop == mpc = "fetch" /\ projIdx <= Len(basicProjects)

\* lines 206-213: the existing entry is pushed in place of the project
SkipProject ==
    /\ InFetchLoop
    /\ CanSkip(projectArtifactSummaries, basicProjects[projIdx].id, forceUpdate)
    /\ projectsWithStatistics' = Append(projectsWithStatistics,
           projectArtifactSummaries[FindIndex(projectArtifactSummaries,
                                              basicProjects[projIdx].id)])
    /\ projIdx' = projIdx + 1
    /\ UNCHANGED <<mpc, targetProjectId, forceUpdate, summaryFile, rawFile,
                   remoteProjects, ppage, projectsFetch, basicProjects, projectArtifactSummaries,
                   sumIdx, statFetches, loadedSummary, clock, runNo, prevRun,
                   exitCode>>
    /\ UNCHANGED <<projectRequests, rawWrites>>
    /\ UNCHANGED dvars
    /\ UNCHANGED avars
    /\ UNCHANGED ovars

\* lines 215-226, 237: the statistics request succeeds
FetchStatistics ==
    /\ InFetchLoop
    /\ ~CanSkip(projectArtifactSummaries, basicProjects[projIdx].id, forceUpdate)
    /\ \E st \in RemoteStats :
         /\ projectsWithStatistics' = Append(projectsWithStatistics,
                Project(basicProjects[projIdx].id, st))
         /\ statFetches' = Append(statFetches,
                [id |-> basicProjects[projIdx].id, ok |-> TRUE, statistics |-> st])
    /\ projIdx' = projIdx + 1
    /\ UNCHANGED <<mpc, targetProjectId, forceUpdate, summaryFile, rawFile,
                   remoteProjects, ppage, projectsFetch, basicProjects, projectArtifactSummaries,
                   sumIdx, loadedSummary, clock, runNo, prevRun, exitCode>>
    /\ UNCHANGED <<projectRequests, rawWrites>>
    /\ UNCHANGED dvars
    /\ UNCHANGED avars
    /\ UNCHANGED ovars

\* the statistics request throws and the error reaches main's catch (line 292)
FetchStatisticsFailAborts ==
    /\ InFetchLoop
    /\ ~CanSkip(projectArtifactSummaries, basicProjects[projIdx].id, forceUpdate)
    /\ statFetches' = Append(statFetches,
           [id |-> basicProjects[projIdx].id, ok |-> FALSE,
            statistics |-> UndefinedStats])
    /\ mpc' = "done"
    /\ exitCode' = 0
    /\ UNCHANGED <<targetProjectId, forceUpdate, summaryFile, rawFile,
                   remoteProjects, ppage, projectsFetch, basicProjects, projIdx,
                   projectArtifactSummaries, projectsWithStatistics, sumIdx,
                   loadedSummary, clock, runNo, prevRun>>
    /\ UNCHANGED <<projectRequests, rawWrites>>
    /\ UNCHANGED dvars
    /\ UNCHANGED avars
    /\ UNCHANGED ovars

\* lines 227-237: the statistics request throws
FetchStatisticsFail ==
    /\ InFetchLoop
    /\ ~CanSkip(projectArtifactSummaries, basicProjects[projIdx].id, forceUpdate)
    /\ projectsWithStatistics' = Append(projectsWithStatistics,
           FailedProject(basicProjects[projIdx].id))
    /\ basicProjects' = [basicProjects EXCEPT
           ![projIdx] = FailedProject(basicProjects[projIdx].id)]
    /\ statFetches' = Append(statFetches,
           [id |-> basicProjects[projIdx].id, ok |-> FALSE,
            statistics |-> UndefinedStats])
    /\ projIdx' = projIdx + 1
    /\ UNCHANGED <<mpc, targetProjectId, forceUpdate, summaryFile, rawFile,
                   remoteProjects, ppage, projectsFetch, projectArtifactSummaries, sumIdx,
                   loadedSummary, clock, runNo, prevRun, exitCode>>
    /\ UNCHANGED <<projectRequests, rawWrites>>
    /\ UNCHANGED dvars
    /\ UNCHANGED avars
    /\ UNCHANGED ovars

\* line 238: the loop ends
FetchLoopEnd ==
    /\ mpc = "fetch"
    /\ projIdx > Len(basicProjects)
    /\ mpc' = "raw"
    /\ UNCHANGED <<targetProjectId, forceUpdate, summaryFile, rawFile, remoteProjects,
                   ppage, projectsFetch, basicProjects, projIdx, projectArtifactSummaries,
                   projectsWithStatistics, sumIdx, statFetches, loadedSummary, clock,
                   runNo, prevRun, exitCode>>
    /\ UNCHANGED <<projectRequests, rawWrites>>
    /\ UNCHANGED dvars
    /\ UNCHANGED avars
    /\ UNCHANGED ovars

\* line 242
WriteRaw ==
    /\ mpc = "raw"
    /\ rawFile' = projectsWithStatistics
    /\ rawWrites' = Append(rawWrites, sumIdx - 1)
    /\ mpc' = "summarise"
    /\ UNCHANGED projectRequests
    /\ UNCHANGED <<targetProjectId, forceUpdate, summaryFile, remoteProjects, ppage, projectsFetch,
                   basicProjects, projIdx, projectArtifactSummaries,
                   projectsWithStatistics, sumIdx, statFetches, loadedSummary, clock,
                   runNo, prevRun, exitCode>>
    /\ UNCHANGED dvars
    /\ UNCHANGED avars
    /\ UNCHANGED ovars

\* lines 246-278: one record is summarised, upserted, and the file rewritten
Summarise ==
    /\ mpc = "summarise"
    /\ sumIdx <= Len(projectsWithStatistics)
    /\ projectArtifactSummaries' =
           Upsert(projectArtifactSummaries,
                  SummaryEntry(projectsWithStatistics[sumIdx], clock))
    /\ summaryFile' = projectArtifactSummaries'
    /\ sumIdx' = sumIdx + 1
    /\ UNCHANGED <<mpc, targetProjectId, forceUpdate, rawFile, remoteProjects, ppage, projectsFetch,
                   basicProjects, projIdx, projectsWithStatistics, statFetches,
                   loadedSummary, clock, runNo, prevRun, exitCode>>
    /\ UNCHANGED <<projectRequests, rawWrites>>
    /\ UNCHANGED dvars
    /\ UNCHANGED avars
    /\ UNCHANGED ovars

\* lines 279-291: the report; main returns and the process ends with code 0
Finish ==
    /\ mpc = "summarise"
    /\ sumIdx > Len(projectsWithStatistics)
    /\ mpc' = "done"
    /\ exitCode' = 0
    /\ UNCHANGED <<targetProjectId, forceUpdate, summaryFile, rawFile, remoteProjects,
                   ppage, projectsFetch, basicProjects, projIdx, projectArtifactSummaries,
                   projectsWithStatistics, sumIdx, statFetches, loadedSummary, clock,
                   runNo, prevRun>>
    /\ UNCHANGED <<projectRequests, rawWrites>>
    /\ UNCHANGED dvars
    /\ UNCHANGED avars
    /\ UNCHANGED ovars

\* the process is terminated from outside while it runs: memory is lost, the
\* files stay as last written
Interrupt ==
    /\ ~Stopped
    /\ mpc # "off"
    /\ mpc' = "killed"
    /\ ppage' = 1
    /\ projectsFetch' = "pending"
    /\ basicProjects' = <<>>
    /\ projIdx' = 1
    /\ projectArtifactSummaries' = <<>>
    /\ projectsWithStatistics' = <<>>
    /\ sumIdx' = 1
    /\ statFetches' = <<>>
    /\ loadedSummary' = <<>>
    /\ projectRequests' = <<>>
    /\ rawWrites' = <<>>
    /\ UNCHANGED <<targetProjectId, forceUpdate, summaryFile, rawFile, remoteProjects,
                   clock, runNo, prevRun, exitCode>>
    /\ UNCHANGED dvars
    /\ UNCHANGED avars
    /\ UNCHANGED ovars

MainNext ==
    \/ StartRun
    \/ FetchTarget
    \/ FetchTargetFail
    \/ FetchProjectsPage
    \/ FetchProjectsFail
    \/ SkipProject
    \/ FetchStatistics
    \/ FetchStatisticsFail
    \/ FetchLoopEnd
    \/ WriteRaw
    \/ Summarise
    \/ Finish
    \/ Interrupt

\* deleteProjectArtifacts on any job list (--delete-project-id=<id>)
InitDelete ==
    DeleteInit(JobLists(CoarseTimes)) /\ MainIdle /\ AllIdle /\ otherRun = OtherOff
SpecDelete == InitDelete /\ [][DeleteNext]_vars

\* deleteProjectArtifacts on one job with any pair of timestamps
InitPolicy ==
    /\ DeleteInit({<<Job(1, e, c)>> : e \in Times \cup {Absent}, c \in Times \cup {Absent}})
    /\ MainIdle
    /\ AllIdle
    /\ otherRun = OtherOff
SpecPolicy == InitPolicy /\ [][DeleteNext]_vars

\* main, run after run, on any project list (no --delete-project-id)
InitMain == DeleteIdle /\ MainInit /\ AllIdle /\ otherRun = OtherOff
Spec == InitMain /\ [][MainNext]_vars

\* ------------------------------------------- deleteAllExpiredArtifacts (131-158)
\* job lists of the projects of a fleet-wide deletion: every job carries an
\* explicit expiry (long past or in the future) or no timestamp at all
FleetJobLists ==
    {l \in JobLists({0, MaxTime}) : \A i \in 1 .. Len(l) : l[i].created_at = Absent}

\* what main alone uses
mainOnly == <<mpc, targetProjectId, forceUpdate, summaryFile, rawFile,
              projectArtifactSummaries, projectsWithStatistics, sumIdx, statFetches,
              loadedSummary, clock, runNo, prevRun, rawWrites>>

\* no call of deleteProjectArtifacts is in progress
DeleteNotCalled ==
    /\ dpc = "idle"
    /\ remoteJobs = <<>>
    /\ page = 1
    /\ allJobs = <<>>
    /\ now = Absent
    /\ sevenDaysAgo = Absent
    /\ jobIdx = 1
    /\ deleteCalls = <<>>
    /\ wouldDelete = <<>>
    /\ jobsFetch = "pending"
    /\ result = "none"
    /\ jobRequests = <<>>

\* lines 311-313: --delete-project-id=all, with or without --dry-run
DeleteAllInit ==
    /\ apc = "list"
    /\ invoked = <<>>
    /\ aResult = "none"
    /\ dryRun \in BOOLEAN
    /\ DeleteNotCalled
    /\ mpc = "off"
    /\ targetProjectId = Undefined
    /\ forceUpdate = FALSE
    /\ exitCode = Undefined
    /\ MainMemoryReset
    /\ MainFiles(ProjectLists)
    /\ otherRun = OtherOff

\* lines 141, 24-36: one successful page of fetchAllProjects
AllFetchProjectsPage ==
    /\ apc = "list"
    /\ basicProjects' = basicProjects \o
           [i \in 1 .. Len(ProjectPage(remoteProjects, ppage)) |->
               Project(ProjectPage(remoteProjects, ppage)[i], UndefinedStats)]
    /\ ppage' = ppage + 1
    /\ projectRequests' = Append(projectRequests, [page |-> ppage, ok |-> TRUE])
    /\ IF ppage * PageSize < Len(remoteProjects)
       THEN apc' = "list" /\ UNCHANGED projectsFetch
       ELSE apc' = "loop" /\ projectsFetch' = "ok"
    /\ UNCHANGED <<remoteProjects, projIdx, exitCode, invoked, aResult>>
    /\ UNCHANGED mainOnly
    /\ UNCHANGED dvars
    /\ UNCHANGED ovars

\* lines 141, 150-157: a page request throws, the catch returns false
AllFetchProjectsFail ==
    /\ apc = "list"
    /\ apc' = "done"
    /\ aResult' = "false"
    /\ projectsFetch' = "failed"
    /\ projectRequests' = Append(projectRequests, [page |-> ppage, ok |-> FALSE])
    /\ basicProjects' = <<>>
    /\ UNCHANGED <<remoteProjects, ppage, projIdx, exitCode, invoked>>
    /\ UNCHANGED mainOnly
    /\ UNCHANGED dvars
    /\ UNCHANGED ovars

\* lines 144-146, 56-66: deleteProjectArtifacts(project.id, debug, dryRun) is called
AllCall ==
    /\ apc = "loop"
    /\ projIdx <= Len(basicProjects)
    /\ apc' = "call"
    /\ dpc' = "listing"
    /\ remoteJobs' \in FleetJobLists
    /\ UNCHANGED <<dryRun, page, allJobs, now, sevenDaysAgo, jobIdx, deleteCalls,
                   wouldDelete, jobsFetch, result, jobRequests>>
    /\ UNCHANGED <<invoked, aResult>>
    /\ UNCHANGED mvars
    /\ UNCHANGED ovars

\* the loop goes on only while every call returns true
AllReturnStopsOnFailure ==
    /\ apc = "call"
    /\ dpc = "done"
    /\ invoked' = Append(invoked,
           [project |-> basicProjects[projIdx].id, result |-> result])
    /\ projIdx' = projIdx + 1
    /\ IF result = "true"
       THEN apc' = "loop" /\ UNCHANGED aResult
       ELSE apc' = "done" /\ aResult' = "false"
    /\ dpc' = "idle"
    /\ remoteJobs' = <<>>
    /\ page' = 1
    /\ allJobs' = <<>>
    /\ now' = Absent
    /\ sevenDaysAgo' = Absent
    /\ jobIdx' = 1
    /\ deleteCalls' = <<>>
    /\ wouldDelete' = <<>>
    /\ jobsFetch' = "pending"
    /\ result' = "none"
    /\ jobRequests' = <<>>
    /\ UNCHANGED <<dryRun, remoteProjects, ppage, projectsFetch, basicProjects,
                   exitCode, projectRequests>>
    /\ UNCHANGED mainOnly
    /\ UNCHANGED ovars

\* lines 144-147: the awaited call returns, its value is dropped, next project
AllReturn ==
    /\ apc = "call"
    /\ dpc = "done"
    /\ invoked' = Append(invoked,
           [project |-> basicProjects[projIdx].id, result |-> result])
    /\ projIdx' = projIdx + 1
    /\ apc' = "loop"
    /\ dpc' = "idle"
    /\ remoteJobs' = <<>>
    /\ page' = 1
    /\ allJobs' = <<>>
    /\ now' = Absent
    /\ sevenDaysAgo' = Absent
    /\ jobIdx' = 1
    /\ deleteCalls' = <<>>
    /\ wouldDelete' = <<>>
    /\ jobsFetch' = "pending"
    /\ result' = "none"
    /\ jobRequests' = <<>>
    /\ UNCHANGED <<dryRun, remoteProjects, ppage, projectsFetch, basicProjects,
                   exitCode, projectRequests, aResult>>
    /\ UNCHANGED mainOnly
    /\ UNCHANGED ovars

\* lines 147-149: the loop ends, return true
AllDone ==
    /\ apc = "loop"
    /\ projIdx > Len(basicProjects)
    /\ apc' = "done"
    /\ aResult' = "true"
    /\ UNCHANGED invoked
    /\ UNCHANGED mvars
    /\ UNCHANGED dvars
    /\ UNCHANGED ovars

\* lines 313-319: the promise of deleteAllExpiredArtifacts resolves, process.exit(0)
AllExit ==
    /\ apc = "done"
    /\ exitCode = Undefined
    /\ exitCode' = 0
    /\ UNCHANGED <<remoteProjects, ppage, projectsFetch, basicProjects, projIdx,
                   projectRequests>>
    /\ UNCHANGED mainOnly
    /\ UNCHANGED dvars
    /\ UNCHANGED avars
    /\ UNCHANGED ovars

DeleteAllNext ==
    \/ AllFetchProjectsPage
    \/ AllFetchProjectsFail
    \/ AllCall
    \/ FetchJobsPage
    \/ FetchJobsFail
    \/ SkipJob
    \/ KeepJob
    \/ DeleteJob
    \/ ReportJob
    \/ DeleteReturn
    \/ AllReturn
    \/ AllDone
    \/ AllExit

\* deleteAllExpiredArtifacts on any project list (--delete-project-id=all)
SpecDeleteAll == DeleteAllInit /\ [][DeleteAllNext]_vars

\* lines 310-344: one invocation of the program in any of its three modes
InitCli ==
    \/ InitMain
    \/ DeleteInit(FleetJobLists) /\ MainIdle /\ AllIdle /\ otherRun = OtherOff
    \/ DeleteAllInit
CliNext ==
    \/ MainNext
    \/ DeleteNext
    \/ DeleteAllNext
SpecCli == InitCli /\ [][CliNext]_vars

\* ------------------------------------------------ two processes running main
\* The second process is a single-target run (--project-id=<id>): lines
\* 169-199, 242, 246-279, on its own memory and on the same two files.
mainButFiles == <<mpc, targetProjectId, forceUpdate, remoteProjects, ppage,
                  projectsFetch, basicProjects, projIdx, projectArtifactSummaries,
                  projectsWithStatistics, sumIdx, statFetches, loadedSummary, clock,
                  runNo, prevRun, exitCode, projectRequests, rawWrites>>

\* lines 169-177: the second process loads the summary file
OtherLoad ==
    /\ otherRun.pc = "idle"
    /\ otherRun' = [otherRun EXCEPT !.pc = "single", !.loaded = summaryFile,
                                    !.summaries = summaryFile]
    /\ UNCHANGED <<summaryFile, rawFile>>
    /\ UNCHANGED mainButFiles
    /\ UNCHANGED dvars
    /\ UNCHANGED avars

\* lines 183-191: its project is fetched
OtherFetchTarget ==
    /\ otherRun.pc = "single"
    /\ \E t \in ProjectIds, st \in RemoteStats :
         otherRun' = [otherRun EXCEPT !.pc = "raw", !.records = <<Project(t, st)>>]
    /\ UNCHANGED <<summaryFile, rawFile>>
    /\ UNCHANGED mainButFiles
    /\ UNCHANGED dvars
    /\ UNCHANGED avars

\* lines 192-198: the fetch fails, process.exit(1)
OtherFetchTargetFail ==
    /\ otherRun.pc = "single"
    /\ otherRun' = [otherRun EXCEPT !.pc = "exited"]
    /\ UNCHANGED <<summaryFile, rawFile>>
    /\ UNCHANGED mainButFiles
    /\ UNCHANGED dvars
    /\ UNCHANGED avars

\* line 242
OtherWriteRaw ==
    /\ otherRun.pc = "raw"
    /\ rawFile' = otherRun.records
    /\ otherRun' = [otherRun EXCEPT !.pc = "summarise"]
    /\ UNCHANGED summaryFile
    /\ UNCHANGED mainButFiles
    /\ UNCHANGED dvars
    /\ UNCHANGED avars

\* the summary step reading the file again before each upsert
OtherSummariseReloads ==
    /\ otherRun.pc = "summarise"
    /\ otherRun.idx <= Len(otherRun.records)
    /\ otherRun' = [otherRun EXCEPT
           !.summaries = Upsert(summaryFile,
                                SummaryEntry(otherRun.records[otherRun.idx], clock)),
           !.idx = otherRun.idx + 1]
    /\ summaryFile' = otherRun'.summaries
    /\ UNCHANGED rawFile
    /\ UNCHANGED mainButFiles
    /\ UNCHANGED dvars
    /\ UNCHANGED avars

\* lines 246-278: upsert into the collection in memory, rewrite the file
OtherSummarise ==
    /\ otherRun.pc = "summarise"
    /\ otherRun.idx <= Len(otherRun.records)
    /\ otherRun' = [otherRun EXCEPT
           !.summaries = Upsert(otherRun.summaries,
                                SummaryEntry(otherRun.records[otherRun.idx], clock)),
           !.idx = otherRun.idx + 1]
    /\ summaryFile' = otherRun'.summaries
    /\ UNCHANGED rawFile
    /\ UNCHANGED mainButFiles
    /\ UNCHANGED dvars
    /\ UNCHANGED avars

\* lines 279-291
OtherFinish ==
    /\ otherRun.pc = "summarise"
    /\ otherRun.idx > Len(otherRun.records)
    /\ otherRun' = [otherRun EXCEPT !.pc = "done"]
    /\ UNCHANGED <<summaryFile, rawFile>>
    /\ UNCHANGED mainButFiles
    /\ UNCHANGED dvars
    /\ UNCHANGED avars

OverlapNext ==
    \/ MainNext
    \/ OtherLoad
    \/ OtherFetchTarget
    \/ OtherFetchTargetFail
    \/ OtherWriteRaw
    \/ OtherSummarise
    \/ OtherFinish

\* two processes, each running main once: the first in any mode (runNo counts
\* its run as the last one allowed), the second on one project
InitOverlap ==
    /\ DeleteIdle
    /\ mpc = "idle"
    /\ targetProjectId = Undefined
    /\ forceUpdate = FALSE
    /\ exitCode = Undefined
    /\ MainMemoryReset
    /\ summaryFile = <<>>
    /\ rawFile = <<>>
    /\ remoteProjects \in ProjectLists
    /\ clock = 0
    /\ runNo = MaxRuns - 1
    /\ prevRun = "none"
    /\ AllIdle
    /\ otherRun = [OtherOff EXCEPT !.pc = "idle"]
SpecOverlap == InitOverlap /\ [][OverlapNext]_vars

\* =================================================================== claims
\* The expiration policy as the claims state it, for reference time t.
PolicyExpired(job, t) ==
    IF job.artifacts_expire_at # Absent THEN job.artifacts_expire_at < t - 7
    ELSE IF job.created_at # Absent THEN job.created_at + 7 < t - 7
    ELSE FALSE

DeletedIds == [i \in 1 .. Len(deleteCalls) |-> deleteCalls[i].job]
IdsOf(jobs) == [i \in 1 .. Len(jobs) |-> jobs[i].id]
ExpiredJobs(jobs, t) == SelectSeq(jobs, LAMBDA j : PolicyExpired(j, t))
Range(s) == {s[i] : i \in 1 .. Len(s)}
Selected(id) == id \in Range(DeletedIds) \cup Range(wouldDelete)
Returned == dpc = "done" /\ jobsFetch = "ok"

\* C1: a dry run issues no DELETE request; a live run that got its job list
\* issues exactly one DELETE request for each job the policy judges expired,
\* in list order, and none for any other job, whatever the requests' outcomes.
C1_DryRunIssuesNoDelete ==
    /\ dryRun => deleteCalls = <<>>
    /\ (~dryRun /\ Returned) => DeletedIds = IdsOf(ExpiredJobs(remoteJobs, now))

C1_Witness ==
    /\ Returned /\ ~dryRun
    /\ Len(remoteJobs) = 2
    /\ DeletedIds = <<2>>
    /\ ~deleteCalls[1].ok

\* C2: with artifacts_expire_at present the job is selected iff that time is
\* strictly earlier than now - 7 days, whatever created_at is.
C2_ExplicitExpiryStrict ==
    (Returned /\ remoteJobs[1].artifacts_expire_at # Absent)
        => (Selected(1) <=> remoteJobs[1].artifacts_expire_at < now - 7)

C2_Witness ==
    /\ Returned
    /\ remoteJobs[1].artifacts_expire_at = now - 7
    /\ remoteJobs[1].created_at = 0
    /\ ~Selected(1)

\* C3: with no artifacts_expire_at and created_at present the job is selected
\* iff created_at + 7 days is strictly earlier than now - 7 days, that is iff
\* it was created more than 14 days before now.
C3_FallbackDoubleStale ==
    (Returned /\ remoteJobs[1].artifacts_expire_at = Absent
              /\ remoteJobs[1].created_at # Absent)
        => /\ Selected(1) <=> remoteJobs[1].created_at + 7 < now - 7
           /\ Selected(1) <=> now - remoteJobs[1].created_at > 14
           /\ remoteJobs[1].created_at = now - 15 => Selected(1)
           /\ remoteJobs[1].created_at = now - 10 => ~Selected(1)

C3_Witness ==
    /\ Returned /\ ~dryRun
    /\ remoteJobs[1].artifacts_expire_at = Absent
    /\ remoteJobs[1].created_at = now - 15
    /\ DeletedIds = <<1>>

\* C4: a job with neither timestamp is never selected, in either mode, and
\* the jobs after it are still evaluated.
NoTimestamp(job) == job.artifacts_expire_at = Absent /\ job.created_at = Absent

C4_NoTimestampNeverSelected ==
    \A i \in 1 .. Len(remoteJobs) :
        NoTimestamp(remoteJobs[i]) =>
            /\ ~Selected(remoteJobs[i].id)
            /\ dpc = "done" /\ now # Absent =>
                 \A k \in i + 1 .. Len(remoteJobs) :
                     PolicyExpired(remoteJobs[k], now) => Selected(remoteJobs[k].id)

C4_Witness ==
    /\ Returned
    /\ Len(remoteJobs) = 2
    /\ NoTimestamp(remoteJobs[1])
    /\ jobIdx = 3
    /\ Selected(2) /\ ~Selected(1)

\* C5: in live mode a failed DELETE request does not abort the batch: every
\* expired job later in the list still gets its own DELETE request.
C5_FailedDeleteIsolated ==
    (dpc = "done" /\ ~dryRun) =>
        \A c \in 1 .. Len(deleteCalls) :
            ~deleteCalls[c].ok =>
                \A k \in 1 .. Len(remoteJobs) :
                    (k > deleteCalls[c].job /\ PolicyExpired(remoteJobs[k], now))
                        => \E d \in c + 1 .. Len(deleteCalls) :
                               deleteCalls[d].job = remoteJobs[k].id

C5_Witness ==
    /\ dpc = "done" /\ ~dryRun
    /\ Len(deleteCalls) = 2
    /\ ~deleteCalls[1].ok
    /\ deleteCalls[2].job = 2

\* C6: the call returns false iff the job listing failed; after a successful
\* listing every job is processed and the call returns true, whatever the
\* outcomes of the DELETE requests.
C6_FalseOnlyOnListingFailure ==
    dpc = "done" =>
        /\ result \in {"true", "false"}
        /\ result = "false" <=> jobsFetch = "failed"
        /\ jobsFetch = "ok" =>
             /\ allJobs = remoteJobs
             /\ jobIdx = Len(remoteJobs) + 1
             /\ result = "true"

C6_Witness ==
    /\ dpc = "done" /\ result = "true"
    /\ Len(remoteJobs) = 2
    /\ \E c \in 1 .. Len(deleteCalls) : ~deleteCalls[c].ok

Entries(s) == 1 .. Len(s)
ValidEntry(e) == e.error = Null /\ e.statistics.defined
FleetRun == targetProjectId = Undefined /\ projectsFetch = "ok"

\* C7: a second non-forced fleet-wide run right after a completed fleet-wide
\* run whose entries are all error-free with statistics leaves the summary
\* file as the first run persisted it, and fetches no statistics.
C7_SecondRunIdentical ==
    (/\ mpc = "done" /\ FleetRun /\ ~forceUpdate
     /\ prevRun = "fleet"
     /\ \A i \in Entries(loadedSummary) : ValidEntry(loadedSummary[i]))
        => /\ summaryFile = loadedSummary
           /\ statFetches = <<>>

\* C8: neither the in-memory summary nor the file ever holds two entries with
\* the same projectId, and each upsert either replaces the one entry with the
\* record's identifier in place by the new entry (nothing of the old entry is
\* kept, the other entries are untouched) or appends it when there is none;
\* the file is rewritten with the result.
UniqueProjectIds(s) ==
    \A i, j \in Entries(s) : s[i].projectId = s[j].projectId => i = j

FreshEntry(e, project, ts) ==
    /\ e.projectId = project.id
    /\ e.projectName = project.name
    /\ e.statistics = project.statistics
    /\ e.timestamp = ts
    /\ e.buildArtifactsSizeBytes \in {0, project.statistics.job_artifacts_size}
    /\ e.error \in {Null, SizeUnavailable, project.error}
    /\ e.error = Null <=> e.buildArtifactsSizeBytes > 0

UpsertStep ==
    LET old == projectArtifactSummaries
        new == projectArtifactSummaries'
        project == projectsWithStatistics[sumIdx]
    IN /\ summaryFile' = new
       /\ IF \E i \in Entries(old) : old[i].projectId = project.id
          THEN /\ Len(new) = Len(old)
               /\ \A i \in Entries(old) :
                    IF old[i].projectId = project.id
                    THEN FreshEntry(new[i], project, clock)
                    ELSE new[i] = old[i]
          ELSE /\ Len(new) = Len(old) + 1
               /\ SubSeq(new, 1, Len(old)) = old
               /\ FreshEntry(new[Len(new)], project, clock)

C8_UniqueUpsert ==
    /\ [](UniqueProjectIds(projectArtifactSummaries) /\ UniqueProjectIds(summaryFile))
    /\ [][sumIdx' = sumIdx + 1 => UpsertStep]_vars

C8_Witness ==
    /\ mpc = "summarise"
    /\ runNo = 2
    /\ Len(summaryFile) = 2
    /\ Len(loadedSummary) = 2
    /\ summaryFile[1].projectId = loadedSummary[1].projectId
    /\ summaryFile[1].projectId # Undefined
    /\ summaryFile[1].timestamp = 2
    /\ loadedSummary[1].error = SizeUnavailable
    /\ summaryFile[1].error = Null
    /\ summaryFile[2] = loadedSummary[2]

\* C9: whenever a fleet-wide run may be interrupted, at most one of the
\* projects whose statistics it has fetched lacks this run's entry in the
\* summary file.
FetchedOk == {statFetches[i].id : i \in {k \in Entries(statFetches) : statFetches[k].ok}}
Persisted(id) ==
    \E i \in Entries(summaryFile) :
        summaryFile[i].projectId = id /\ summaryFile[i].timestamp = clock

C9_AtMostOneFetchLost ==
    (targetProjectId = Undefined /\ ~Stopped)
        => Cardinality({id \in FetchedOk : ~Persisted(id)}) <= 1

\* C10: in a fleet-wide pass, a listed project gets no statistics request iff
\* forceUpdate is false and the loaded summary holds an error-free entry with
\* statistics for its id; every other listed project gets exactly one.
FetchCount(id) == Cardinality({i \in Entries(statFetches) : statFetches[i].id = id})

C10_SkipIffValidCached ==
    (FleetRun /\ mpc \in {"raw", "summarise", "done"})
        => \A k \in Entries(remoteProjects) :
             LET cached == /\ ~forceUpdate
                           /\ \E i \in Entries(loadedSummary) :
                                /\ loadedSummary[i].projectId = remoteProjects[k]
                                /\ loadedSummary[i].error = Null
                                /\ loadedSummary[i].statistics.defined
             IN FetchCount(remoteProjects[k]) = (IF cached THEN 0 ELSE 1)

C10_Witness ==
    /\ FleetRun /\ mpc = "done" /\ ~forceUpdate
    /\ Len(remoteProjects) = 2
    /\ FetchCount(1) = 1
    /\ FetchCount(2) = 0
    /\ Len(projectsWithStatistics) = 2


\* C11: in fleet-wide deletion the calls of deleteProjectArtifacts that have
\* returned are the listed projects, one each, in listing order (a prefix while
\* the loop runs, all of them once it has ended), whatever each call returned;
\* deleteAllExpiredArtifacts returns false exactly when the project listing
\* failed, and true only after every listed project was handled.
C11_EveryProjectOnceInOrder ==
    /\ [i \in 1 .. Len(invoked) |-> invoked[i].project]
           = SubSeq(remoteProjects, 1, Len(invoked))
    /\ apc \in {"loop", "call"} => Len(invoked) = projIdx - 1
    /\ apc = "done" => aResult # "none"
    /\ aResult = "false" <=> projectsFetch = "failed"
    /\ aResult = "true" =>
          /\ projectsFetch = "ok"
          /\ Len(invoked) = Len(remoteProjects)

\* a run over two projects in which the first project's job listing failed and
\* the second was still handled
C11_Witness ==
    /\ apc = "done"
    /\ aResult = "true"
    /\ Len(invoked) = 2
    /\ invoked[1].result = "false"
    /\ invoked[2].result = "true"

\* the project a record of projectsWithStatistics stands for: a fetched
\* record carries it as id, a pushed summary entry as projectId
RecordProject(r) == IF r.id # Undefined THEN r.id ELSE r.projectId
FailedFetches == {statFetches[i].id : i \in {k \in Entries(statFetches) : ~statFetches[k].ok}}

\* C12: a failed statistics fetch does not end a fleet-wide run: the run never
\* exits with code 1, and once it has completed there is one record for every
\* listed project, in listing order, and the summary file holds, for each
\* project whose fetch failed, exactly one entry with that projectId, written by
\* this run, with buildArtifactsSizeBytes = 0, statistics = {} and an error.
C12_FetchFailureIsolated ==
    /\ targetProjectId = Undefined => exitCode # 1
    /\ mpc = "done" /\ FleetRun =>
          /\ [i \in Entries(projectsWithStatistics) |->
                 RecordProject(projectsWithStatistics[i])] = remoteProjects
          /\ sumIdx = Len(remoteProjects) + 1
          /\ \A id \in FailedFetches :
                /\ Cardinality({i \in Entries(summaryFile) :
                                    summaryFile[i].projectId = id}) = 1
                /\ \A i \in Entries(summaryFile) :
                      summaryFile[i].projectId = id =>
                         /\ summaryFile[i].buildArtifactsSizeBytes = 0
                         /\ summaryFile[i].statistics = EmptyStats
                         /\ TruthyStr(summaryFile[i].error)
                         /\ summaryFile[i].timestamp = clock

\* a completed fleet-wide run over two projects: the fetch of the first
\* failed, the second was fetched
C12_Witness ==
    /\ mpc = "done"
    /\ FleetRun
    /\ Len(remoteProjects) = 2
    /\ Len(statFetches) = 2
    /\ ~statFetches[1].ok
    /\ statFetches[2].ok

\* the first page the platform serves without an x-next-page header
LastPage(s) ==
    CHOOSE p \in 1 .. Len(s) + 1 :
        /\ ~HasNextPage(s, p)
        /\ \A q \in 1 .. p - 1 : HasNextPage(s, q)

\* the bodies of pages 1 .. n of list s, one after another
RECURSIVE Concat(_, _)
Concat(s, n) == IF n = 0 THEN <<>> ELSE Concat(s, n - 1) \o PageBody(s, n)

\* requests for pages 1, 2, 3, ..., one each; only the last may have failed
Consecutive(log) ==
    \A i \in Entries(log) :
        /\ log[i].page = i
        /\ i < Len(log) => log[i].ok
AllOk(log) == \A i \in Entries(log) : log[i].ok
ListingProjects == mpc = "list" \/ apc = "list"

\* each paginated fetch requests pages 1, 2, 3, ... once each; while it
\* runs it holds the concatenation of the bodies received and has not gone past
\* the first page without a next-page header (so it ends when that page comes,
\* however many pages precede it); when it succeeds it made exactly the
\* requests up to that page and yields the concatenation of all bodies; a
\* failed request is the last one, and nothing of the partial list is used:
\* the caller gets the failure.
PagesInOrderOnce ==
    /\ Consecutive(jobRequests)
    /\ dpc = "listing" =>
          /\ AllOk(jobRequests)
          /\ page = Len(jobRequests) + 1
          /\ page <= LastPage(remoteJobs)
          /\ allJobs = Concat(remoteJobs, page - 1)
    /\ jobsFetch = "ok" =>
          /\ AllOk(jobRequests)
          /\ Len(jobRequests) = LastPage(remoteJobs)
          /\ allJobs = Concat(remoteJobs, LastPage(remoteJobs))
          /\ allJobs = remoteJobs
    /\ jobsFetch = "failed" =>
          /\ ~jobRequests[Len(jobRequests)].ok
          /\ result = "false"
          /\ jobIdx = 1
          /\ deleteCalls = <<>>
          /\ wouldDelete = <<>>
    /\ Consecutive(projectRequests)
    /\ ListingProjects =>
          /\ AllOk(projectRequests)
          /\ ppage = Len(projectRequests) + 1
          /\ ppage <= LastPage(remoteProjects)
          /\ [i \in Entries(basicProjects) |-> basicProjects[i].id]
                = Concat(remoteProjects, ppage - 1)
    /\ projectsFetch = "ok" =>
          /\ AllOk(projectRequests)
          /\ Len(projectRequests) = LastPage(remoteProjects)
          /\ [i \in Entries(basicProjects) |-> basicProjects[i].id]
                = Concat(remoteProjects, LastPage(remoteProjects))
          /\ Len(basicProjects) = Len(remoteProjects)
    /\ projectsFetch = "failed" =>
          /\ ~projectRequests[Len(projectRequests)].ok
          /\ basicProjects = <<>>
          /\ projIdx = 1
          /\ invoked = <<>>
          /\ statFetches = <<>>
          /\ aResult = "false" \/ mpc = "done"

\* fleet-wide deletion where every request is answered and every continuation
\* the event loop holds is run
SpecPaging == SpecDeleteAll /\ WF_vars(DeleteAllNext)

\* C13: the paginated fetch requests pages 1, 2, 3, ... consecutively, one
\* request per page, up to the first page without a next-page header and no
\* further, and yields the in-order concatenation of the bodies; a failed
\* request is not retried and ends the fetch with a failure and no partial
\* result; and every listing that is started ends, with the full list or with
\* the failure.
C13_PaginatedFetch ==
    /\ []PagesInOrderOnce
    /\ (apc = "list") ~> (projectsFetch # "pending")
    /\ (dpc = "listing") ~> (jobsFetch # "pending")

\* the project listing and a job listing both took more than one page
C13_Witness ==
    /\ projectsFetch = "ok"
    /\ Len(projectRequests) > 1
    /\ jobsFetch = "ok"
    /\ Len(jobRequests) > 1
    /\ Len(allJobs) > PageSize

SingleTargetFetchFailed ==
    /\ targetProjectId # Undefined
    /\ statFetches # <<>>
    /\ ~statFetches[Len(statFetches)].ok

\* C14: when the fetch of the project of a single-target run fails the process
\* exits with code 1 having written neither file; no other run exits with
\* code 1, and every run that completes - main returning, with or without
\* per-project fetch failures or a failed project listing, or a deletion
\* executor returning true or false - ends with exit code 0.
C14_ExitCodes ==
    /\ SingleTargetFetchFailed =>
          /\ mpc = "exited"
          /\ exitCode = 1
          /\ sumIdx = 1
          /\ summaryFile = loadedSummary
          /\ rawWrites = <<>>
    /\ exitCode = 1 => SingleTargetFetchFailed
    /\ mpc = "exited" => SingleTargetFetchFailed
    /\ mpc = "done" => exitCode = 0
    /\ exitCode # Undefined /\ mpc = "off" =>
          /\ exitCode = 0
          /\ IF apc = "off" THEN result # "none" ELSE aResult # "none"
    /\ apc = "off" /\ dpc = "done" => exitCode = 0 \/ ENABLED DeleteExit
    /\ apc = "done" => exitCode = 0 \/ ENABLED AllExit

\* a single-target run on an existing summary whose fetch failed
C14_Witness ==
    /\ SingleTargetFetchFailed
    /\ exitCode = 1
    /\ Len(summaryFile) > 0
    /\ runNo = 2

\* C15: a live deletion run that got its job list issues a DELETE request for
\* every job without artifacts_expire_at whose created_at is more than 7 days
\* before the run.
C15_CreatedSevenDaysAgoDeleted ==
    Returned /\ ~dryRun =>
        \A i \in Entries(allJobs) :
            /\ allJobs[i].artifacts_expire_at = Absent
            /\ allJobs[i].created_at # Absent
            /\ allJobs[i].created_at < now - 7
            => allJobs[i].id \in Range(DeletedIds)

\* the projects a completed run processed, and those it fetched again
ProcessedProjects ==
    IF targetProjectId # Undefined THEN {targetProjectId} ELSE Range(remoteProjects)
Refetched == {statFetches[i].id : i \in Entries(statFetches)}
CompletedRun == mpc = "done" /\ (targetProjectId # Undefined \/ projectsFetch = "ok")

\* C16: after a completed run every loaded entry whose project was not fetched
\* again is in the summary file unchanged and at its position, and the file has
\* as many entries as there are distinct project identifiers among the loaded
\* entries and the processed projects.
C16_MergeKeepsAndCounts ==
    CompletedRun =>
        /\ \A i \in Entries(loadedSummary) :
              loadedSummary[i].projectId \notin Refetched =>
                  /\ i <= Len(summaryFile)
                  /\ summaryFile[i] = loadedSummary[i]
        /\ Len(summaryFile) =
              Cardinality({loadedSummary[i].projectId : i \in Entries(loadedSummary)}
                          \cup ProcessedProjects)

\* statistics.job_artifacts_size is there, whatever its value
SizePresent(project) ==
    /\ project.statistics.defined
    /\ project.statistics.job_artifacts_size # Undefined
LastSummarised == projectsWithStatistics[sumIdx - 1]
LastEntry ==
    projectArtifactSummaries[FindIndex(projectArtifactSummaries, LastSummarised.id)]

\* C17: the entry the summary step has just written for a record has, when
\* statistics.job_artifacts_size is present (0 included), that value as
\* buildArtifactsSizeBytes and the record's fetch error or null as error;
\* when it is absent, 0 and "Build artifacts size not available in project
\* statistics.".
C17_PresentSizeKept ==
    mpc \in {"summarise", "done"} /\ sumIdx > 1 =>
        IF SizePresent(LastSummarised)
        THEN /\ LastEntry.buildArtifactsSizeBytes
                    = LastSummarised.statistics.job_artifacts_size
             /\ LastEntry.error = IF TruthyStr(LastSummarised.error)
                                  THEN LastSummarised.error ELSE Null
        ELSE /\ LastEntry.buildArtifactsSizeBytes = 0
             /\ LastEntry.error = SizeUnavailable

\* C18: a completed fleet-wide run wrote the raw statistics file once, before
\* any summary-file write and with the records of all fetches, and the file
\* holds one record per listed project, in listing order, each with the
\* project's id and name.
C18_RawSnapshotOfProjects ==
    mpc = "done" /\ FleetRun =>
        /\ rawWrites = <<0>>
        /\ rawFile = projectsWithStatistics
        /\ Len(rawFile) = Len(remoteProjects)
        /\ \A i \in Entries(rawFile) :
              /\ rawFile[i].id = remoteProjects[i]
              /\ rawFile[i].name = ProjectName(remoteProjects[i])

ProjectIdsIn(s) == {s[i].projectId : i \in Entries(s)}
RecordIds(s) == {s[i].id : i \in Entries(s)}

\* C19: the summary file is not guarded: every change of it is one process
\* replacing the whole file by its own in-memory collection, which holds
\* nothing but the entries that process loaded at its start and those of its
\* own records - never what another process has persisted in between.
C19_WritesFromOwnMemoryOnly ==
    [][summaryFile' # summaryFile =>
          \/ /\ mpc = "summarise"
             /\ summaryFile' = projectArtifactSummaries'
             /\ ProjectIdsIn(summaryFile') \subseteq
                    ProjectIdsIn(loadedSummary) \cup RecordIds(projectsWithStatistics)
          \/ /\ otherRun.pc = "summarise"
             /\ summaryFile' = otherRun'.summaries
             /\ ProjectIdsIn(summaryFile') \subseteq
                    ProjectIdsIn(otherRun.loaded) \cup RecordIds(otherRun.records)]_vars

\* the lost update: both processes have completed, the second one upserted and
\* persisted the entry of its project, and the final file has no entry for it
C19_Witness ==
    /\ mpc = "done"
    /\ otherRun.pc = "done"
    /\ otherRun.idx = 2
    /\ otherRun.records[1].id \in ProjectIdsIn(otherRun.summaries)
    /\ otherRun.records[1].id \notin ProjectIdsIn(summaryFile)
    /\ summaryFile # <<>>

\* C20: a DELETE request is issued only after the job listing has completed
\* successfully, on the complete list; while the listing runs nothing is
\* deleted or reported; and when a page request fails, after however many
\* pages, the call has returned false with no DELETE request issued.
C20_NoDeleteOnPartialList ==
    /\ deleteCalls # <<>> =>
          /\ jobsFetch = "ok"
          /\ allJobs = remoteJobs
    /\ dpc = "listing" => deleteCalls = <<>> /\ wouldDelete = <<>>
    /\ jobsFetch = "failed" =>
          /\ dpc = "done"
          /\ result = "false"
          /\ deleteCalls = <<>>
          /\ wouldDelete = <<>>

\* a live run whose second page request failed after the first page had
\* brought a job the policy judges expired
C20_Witness ==
    /\ jobsFetch = "failed"
    /\ ~dryRun
    /\ Len(jobRequests) = 2
    /\ allJobs # <<>>
    /\ \A t \in NowChoices : PolicyExpired(allJobs[1], t)

\* C21: in a fleet-wide run of main the step in which a project-list request
\* fails changes neither file, and once it has failed the run has ended
\* without a statistics request, without a write of the raw statistics file
\* or of the summary file, the summary file being as the run loaded it.
C21_ListingFailureLeavesFiles ==
    /\ [](mpc # "off" /\ projectsFetch = "failed" =>
             /\ mpc = "done"
             /\ targetProjectId = Undefined
             /\ statFetches = <<>>
             /\ projectsWithStatistics = <<>>
             /\ rawWrites = <<>>
             /\ sumIdx = 1
             /\ summaryFile = loadedSummary)
    /\ [][mpc # "off" /\ projectsFetch' = "failed" =>
             /\ summaryFile' = summaryFile
             /\ rawFile' = rawFile]_vars

\* a fleet-wide run on files left by an earlier run, whose second project-list
\* request failed
C21_Witness ==
    /\ mpc = "done"
    /\ projectsFetch = "failed"
    /\ Len(projectRequests) = 2
    /\ projectRequests[1].ok
    /\ summaryFile # <<>>
    /\ rawFile # <<>>
====
